---------------------------- MODULE Spec2Model ----------------------------
(***************************************************************************)
(* State-machine model of the Direct3D12 buffer object of DiligentCore      *)
(* (Graphics/GraphicsEngineD3D12/src/BufferD3D12Impl.cpp): construction,    *)
(* heap placement, resource-state tracking, initial-data upload and         *)
(* deferred destruction, together with the render-device collaborators     *)
(* the buffer calls (command queues, fences, release queue).               *)
(***************************************************************************)
EXTENDS Integers, Sequences, FiniteSets, TLC

(***************************************************************************)
(* Bounds of the model.                                                    *)
(***************************************************************************)
\* number of software command queues of the device
NumQueues == 2
\* requested sizes are SizeUnit-byte multiples: 1..MaxSizeUnits units
MaxSizeUnits == 2
\* supplied data sizes are DataUnit-byte multiples: 0..MaxDataUnits units
MaxDataUnits == 1
\* an attached native resource's width has high words 0..MaxWidthHi
MaxWidthHi == 1
\* command buffers the immediate contexts submit, all queues together
MaxCmdBuffers == 2
\* view offsets are 256 * (0 .. MaxViewUnits), explicit view sizes 100 * (1 .. MaxViewUnits)
MaxViewUnits == 1
\* calls of CreateCBV and CreateViewInternal made on one buffer
MaxViewCalls == 2
\* child factories given to a compound shader-source factory
MaxFactories == 2
\* entries of the file-substitute list given to a compound shader-source factory
MaxFileSubstitutes == 2

(***************************************************************************)
(* Program constants (values of the Direct3D12 headers the code names).    *)
(***************************************************************************)
D3D12_CONSTANT_BUFFER_DATA_PLACEMENT_ALIGNMENT == 256
D3D12_TEXTURE_DATA_PITCH_ALIGNMENT == 256
D3D12_REQ_CONSTANT_BUFFER_ELEMENT_COUNT == 4096

Null == "null"

\* no queue index / no device context
NoQueue == -1

Queues == 0 .. (NumQueues - 1)

\* USAGE enumeration values read by the buffer
Usages == {"IMMUTABLE", "DEFAULT", "DYNAMIC", "STAGING", "UNIFIED", "SPARSE"}

\* BIND_FLAGS bits read by the buffer
BindBits == {"UNIFORM_BUFFER", "UNORDERED_ACCESS", "SHADER_RESOURCE", "RAY_TRACING"}

\* CPU_ACCESS_FLAGS bits
CpuBits == {"READ", "WRITE"}

\* BUFFER_MODE enumeration
Modes == {"UNDEFINED", "FORMATTED", "STRUCTURED", "RAW"}

\* RESOURCE_STATE values the buffer assigns; "UNKNOWN" is RESOURCE_STATE_UNKNOWN
KnownStates == {"UNDEFINED", "GENERIC_READ", "COPY_DEST", "UNORDERED_ACCESS"}

Sizes == {128 * k : k \in 1 .. MaxSizeUnits}

DataSizes == {200 * k : k \in 0 .. MaxDataUnits}

\* native resources owned by the application and drawn with by the immediate contexts
AppResources == {"ResourceX"}

\* queue-affinity masks: non-empty sets of queue indices
Masks == (SUBSET Queues) \ {{}}

Min(a, b) == IF a < b THEN a ELSE b

Max(a, b) == IF a > b THEN a ELSE b

\* AlignUp(val, alignment): smallest multiple of alignment that is >= val
AlignUp(val, alignment) == ((val + (alignment - 1)) \div alignment) * alignment

\* PlatformMisc::GetLSB(mask): index of the lowest set bit
GetLSB(mask) == CHOOSE q \in mask : \A r \in mask : q <= r

\* PlatformMisc::CountOneBits(mask)
CountOneBits(mask) == Cardinality(mask)


(***************************************************************************)
(* Constructor arguments.                                                  *)
(***************************************************************************)
\* BufferDesc fields the buffer reads.  The allocating constructor reads Mode
\* only for a dynamic buffer and compares CPUAccessFlags only for a staging
\* buffer; for the other usages these two fields range over representatives.
BufferDescs ==
    {d \in [Usage : Usages, BindFlags : SUBSET BindBits, CPUAccessFlags : SUBSET CpuBits,
            Mode : Modes, Size : Sizes, ImmediateContextMask : Masks] :
        /\ d.Usage # "DYNAMIC" => d.Mode \in {"UNDEFINED"}
        /\ d.Usage # "STAGING" => d.CPUAccessFlags \in {{}, {"WRITE"}}
        /\ d.Usage = "DYNAMIC" => CountOneBits(d.ImmediateContextMask) <= 1}

\* BufferData: pData is TRUE when the pointer is not null; pContext is NoQueue
\* (no context) or the command queue id of the supplied device context (a context
\* is supplied along with data: the queue is only used by the upload)
BufferDatas ==
    {b \in [isNull : {FALSE}, pData : BOOLEAN, DataSize : DataSizes,
            pContext : Queues \cup {NoQueue}] :
        (~b.pData \/ b.DataSize = 0) => b.pContext = NoQueue}

\* pBuffData = nullptr
NullBuffData == [isNull |-> TRUE, pData |-> FALSE, DataSize |-> 0, pContext |-> NoQueue]

\* D3D12_RESOURCE_DESC of an existing native buffer: Width is a 64-bit value,
\* Width = WidthHi * 2^32 + WidthLo
NativeDescs ==
    [WidthHi : 0 .. MaxWidthHi, WidthLo : Sizes,
     Flags : SUBSET {"ALLOW_UNORDERED_ACCESS", "DENY_SHADER_RESOURCE"}]

NoNativeDesc == [WidthHi |-> 0, WidthLo |-> 0, Flags |-> {}]

\* arguments of the allocating constructor
CreateArgs ==
    [ctor : {"create"}, BuffDesc : BufferDescs, pBuffData : BufferDatas \cup {NullBuffData},
     InitialState : {"UNKNOWN"}, pd3d12Buffer : {NoNativeDesc}]

\* arguments of the constructor that attaches to a native resource; the
\* descriptor passes the DEV_CHECK_ERR checks of BufferDescFromD3D12Resource
AttachArgs ==
    {a \in [ctor : {"attach"},
            BuffDesc : [Usage : {"DEFAULT"}, BindFlags : SUBSET (BindBits \ {"RAY_TRACING"}),
                        CPUAccessFlags : {{}}, Mode : {"RAW", "STRUCTURED"},
                        Size : {0} \cup Sizes, ImmediateContextMask : Masks],
            pBuffData : {NullBuffData},
            InitialState : KnownStates \cup {"UNKNOWN"},
            pd3d12Buffer : NativeDescs] :
        /\ a.BuffDesc.Size \in {0, a.pd3d12Buffer.WidthLo}
        /\ "ALLOW_UNORDERED_ACCESS" \in a.pd3d12Buffer.Flags =>
              (a.BuffDesc.BindFlags = {} \/ "UNORDERED_ACCESS" \in a.BuffDesc.BindFlags)
        /\ "DENY_SHADER_RESOURCE" \in a.pd3d12Buffer.Flags =>
              "SHADER_RESOURCE" \notin a.BuffDesc.BindFlags}

VARIABLES
    pc,                    \* position of the constructor / lifetime of the object
    args,                  \* the constructor's arguments
    m_Desc,                \* BufferDesc kept by the object
    m_State,               \* tracked RESOURCE_STATE
    m_pd3d12Resource,      \* backing native resource handle (Null when empty)
    m_CBVDescriptorAllocation, \* descriptor of the default constant-buffer view
    m_MemoryProperties,
    loc,                   \* locals of the constructor
    d3d12Resources,        \* native resources created on the device
    log,                   \* device calls made by the buffer, in order
    NextCmdBufferNumber,   \* per queue: number of the command buffer being recorded
    NextFenceValue,        \* per queue: fence value the next submission signals
    CompletedFenceValue,   \* per queue: last fence value the GPU signaled
    StaleResources,        \* released objects, tagged (queue, command buffer number)
    ReleaseQueue,          \* discarded objects, tagged (queue, fence value)
    Freed,                 \* native resources physically destroyed
    Submitted,             \* command lists submitted to a queue and not yet completed
    ImmRefs,               \* per queue: resources the immediate context's open list uses
    AppHeld,               \* application resources not yet released
    hist,                  \* history: what was released during the copy, the fence
                           \* values at destruction, the immediate submissions made,
                           \* whether SetState was called on the constructed buffer
    views,                 \* views created on the constructed buffer by its callers
    factory                \* a CompoundShaderSourceFactory and the result of the
                           \* last call made on it

bufVars == <<pc, args, m_Desc, m_State, m_pd3d12Resource, m_CBVDescriptorAllocation,
             m_MemoryProperties, loc, d3d12Resources, log>>

devVars == <<NextCmdBufferNumber, NextFenceValue, CompletedFenceValue,
             StaleResources, ReleaseQueue, Freed, Submitted, ImmRefs, AppHeld, hist,
             views>>

vars == <<bufVars, devVars, factory>>

\* an empty DescriptorHeapAllocation, no view created
NoCBV == [allocated |-> FALSE, created |-> 0, Offset |-> 0, SizeInBytes |-> 0]

\* no view recorded: nothing was written through ppView, no descriptor written
NoView == [ViewType |-> "none", bIsDefaultView |-> FALSE, refs |-> 0]

NoCBVDesc == [Offset |-> -1, Size |-> -1, BufferLocation |-> -1, SizeInBytes |-> -1]

NoViewCall == [ViewType |-> "none", valid |-> TRUE, ppViewNull |-> FALSE]

\* views: the calls of CreateViewInternal and of CreateCBV made so far, the errors
\* logged, the view object written through ppView and the descriptor written by
\* the last call, the descriptors held by views, whether an exception left
\* CreateViewInternal, and the arguments of the last CreateViewInternal
NoViews ==
    [calls |-> 0, cbvCalls |-> 0, errors |-> 0, ppView |-> NoView, cbv |-> NoCBVDesc,
     descriptors |-> 0, thrown |-> FALSE, last |-> NoViewCall]

\* an empty PooledCommandContext
NoContext == [queue |-> NoQueue, refs |-> {}]

NoLocals ==
    [InitialDataSize |-> 0, CmdQueueInd |-> NoQueue, HeapType |-> Null,
     d3d12State |-> Null, UploadBuffer |-> Null, InitContext |-> NoContext,
     Copied |-> 0, CopyFence |-> 0]

\* state after the TBufferBase constructor ran: descriptor copied, state unknown
InitBuffer(a) ==
    /\ pc = "begin"
    /\ args = a
    /\ m_Desc = a.BuffDesc
    /\ m_State = "UNKNOWN"
    /\ m_pd3d12Resource = Null
    /\ m_CBVDescriptorAllocation = NoCBV
    /\ m_MemoryProperties = Null
    /\ loc = NoLocals
    /\ d3d12Resources = {}
    /\ log = <<>>

InitDevice ==
    /\ NextCmdBufferNumber = [q \in Queues |-> 0]
    /\ NextFenceValue = [q \in Queues |-> 1]
    /\ CompletedFenceValue = [q \in Queues |-> 0]
    /\ StaleResources = {}
    /\ ReleaseQueue = {}
    /\ Freed = {}
    /\ Submitted = {}
    /\ ImmRefs = [q \in Queues |-> {}]
    /\ AppHeld = AppResources
    /\ hist = [RelDuringCopy |-> {}, DestroyFence |-> [q \in Queues |-> 0],
               ImmSubmits |-> 0, StateSet |-> FALSE]
    /\ views = NoViews

(***************************************************************************)
(* CompoundShaderSourceFactory: inputs and initial state.                  *)
(***************************************************************************)
FileNames == {"a.fxh", "b.fxh", "c.fxh"}

\* *ppStream == nullptr
NoStream == [factory |-> 0, Name |-> ""]

\* a null entry of ppFactories
NullFactory == [isNull |-> TRUE, files |-> {}]

\* a child factory is null or opens the files of its set (none, or one file)
ChildFactories ==
    {NullFactory} \cup
    {[isNull |-> FALSE, files |-> f] : f \in {{}} \cup {{n} : n \in FileNames}}

\* ShaderSourceFileSubstitueInfo{Name, Substitute}
FileSubstitutes == {p \in [Name : FileNames, Substitute : FileNames] : p.Name # p.Substitute}

SeqsUpTo(S, n) == UNION {[1 .. k -> S] : k \in 0 .. n}

\* CompoundShaderSourceFactoryCreateInfo: the two arrays may be null pointers
CompoundShaderSourceFactoryCreateInfos ==
    {ci \in [ppFactoriesNull : BOOLEAN,
             ppFactories : SeqsUpTo(ChildFactories, MaxFactories),
             pFileSubstitutesNull : BOOLEAN,
             pFileSubstitutes : SeqsUpTo(FileSubstitutes, MaxFileSubstitutes)] :
        /\ ci.ppFactoriesNull => ci.ppFactories = <<>>
        /\ ci.pFileSubstitutesNull => ci.pFileSubstitutes = <<>>}

NoCreateInfo ==
    [ppFactoriesNull |-> TRUE, ppFactories |-> <<>>,
     pFileSubstitutesNull |-> TRUE, pFileSubstitutes |-> <<>>]

NoStreamCall == [entry |-> "none", Name |-> "", Flags |-> {}]

\* no compound factory: nothing constructed, nothing called
NoFactory ==
    [pc |-> "none", CI |-> NoCreateInfo, m_pFactories |-> <<>>, m_FileSubstituteMap |-> {},
     call |-> NoStreamCall, ppStream |-> NoStream, asked |-> <<>>, errors |-> <<>>]

\* Create(CreateInfo) is about to construct the factory
InitFactory(ci) == factory = [NoFactory EXCEPT !.pc = "new", !.CI = ci]

Init == InitDevice /\ factory = NoFactory /\ \E a \in CreateArgs \cup AttachArgs : InitBuffer(a)

(***************************************************************************)
(* Resource state tracker.                                                 *)
(***************************************************************************)
IsInKnownState == m_State # "UNKNOWN"

CheckState(s) == m_State = s

(***************************************************************************)
(* Render device: deferred release.                                        *)
(***************************************************************************)
\* SafeReleaseDeviceObject(Object, QueueMask): the object is tagged, for every
\* queue of the mask, with the number of the command buffer being recorded
SafeReleaseDeviceObject(id, mask) ==
    IF id = Null THEN StaleResources
    ELSE StaleResources \cup {[res |-> id, queue |-> q, num |-> NextCmdBufferNumber[q]] : q \in mask}

\* a command list submitted straight to queue q: it takes the queue's next fence
\* value; the command buffer number of the immediate context is not advanced
\* and no stale object is discarded
SubmitTransient(q, refs) ==
    /\ Submitted' = Submitted \cup {[queue |-> q, fence |-> NextFenceValue[q], refs |-> refs]}
    /\ NextFenceValue' = [NextFenceValue EXCEPT ![q] = NextFenceValue[q] + 1]
    /\ UNCHANGED <<NextCmdBufferNumber, ReleaseQueue>>

\* SubmitCommandBuffer of the immediate context of queue q: the list takes the
\* next fence value, the command buffer number advances, and the stale objects
\* tagged with a number up to the submitted one are discarded to the release
\* queue with the submission's fence value
SubmitCommandBuffer(q, refs, stale) ==
    LET f   == NextFenceValue[q]
        num == NextCmdBufferNumber[q]
        old == {r \in stale : r.queue = q /\ r.num <= num}
    IN  /\ Submitted' = Submitted \cup {[queue |-> q, fence |-> f, refs |-> refs]}
        /\ NextFenceValue' = [NextFenceValue EXCEPT ![q] = f + 1]
        /\ NextCmdBufferNumber' = [NextCmdBufferNumber EXCEPT ![q] = num + 1]
        /\ StaleResources' = stale \ old
        /\ ReleaseQueue' = ReleaseQueue \cup
               {[res |-> r.res, queue |-> q, fence |-> f] : r \in old}

(***************************************************************************)
(* BufferD3D12Impl::BufferD3D12Impl (allocating constructor).              *)
(***************************************************************************)
\* LOG_ERROR_AND_THROW inside the constructor: the members and locals holding
\* native resources (CComPtr) are released at once by stack unwinding
Throw ==
    /\ pc' = "failed"
    /\ Freed' = Freed \cup ({m_pd3d12Resource, loc.UploadBuffer} \ {Null})
    /\ m_pd3d12Resource' = Null
    /\ loc' = [loc EXCEPT !.UploadBuffer = Null, !.InitContext = NoContext]

\* BufferAlignment ignoring the uniform-buffer bind flag
BufferAlignment_NoUniform(desc) ==
    IF desc.Usage = "STAGING" /\ desc.CPUAccessFlags = {"WRITE"}
    THEN D3D12_TEXTURE_DATA_PITCH_ALIGNMENT ELSE 1

\* BufferAlignment ignoring the staging rule
BufferAlignment_NoStaging(desc) ==
    IF "UNIFORM_BUFFER" \in desc.BindFlags
    THEN D3D12_CONSTANT_BUFFER_DATA_PLACEMENT_ALIGNMENT ELSE 1

\* alignment computed from the bind flags, usage and CPU access flags
BufferAlignment(desc) ==
    LET a == IF "UNIFORM_BUFFER" \in desc.BindFlags
             THEN D3D12_CONSTANT_BUFFER_DATA_PLACEMENT_ALIGNMENT ELSE 1
    IN  IF desc.Usage = "STAGING" /\ desc.CPUAccessFlags = {"WRITE"}
        THEN Max(a, D3D12_TEXTURE_DATA_PITCH_ALIGNMENT) ELSE a

\* CtorBegin without the check of USAGE_UNIFIED
CtorBegin_NoUnifiedCheck ==
    /\ pc = "begin"
    /\ args.ctor = "create"
    /\ \E valid \in BOOLEAN :
         IF ~valid
         THEN Throw /\ UNCHANGED <<m_Desc>>
         ELSE /\ m_Desc' = [m_Desc EXCEPT !.Size = AlignUp(m_Desc.Size, BufferAlignment(m_Desc))]
              /\ pc' = "place"
              /\ UNCHANGED <<m_pd3d12Resource, loc, Freed>>
    /\ UNCHANGED <<args, m_State, m_CBVDescriptorAllocation, m_MemoryProperties,
                   d3d12Resources, log, NextCmdBufferNumber, NextFenceValue,
                   CompletedFenceValue, StaleResources, ReleaseQueue,
                   Submitted, ImmRefs, AppHeld, hist, views, factory>>

\* ValidateBufferInitData may throw; the unified check throws; the size is aligned
CtorBegin ==
    /\ pc = "begin"
    /\ args.ctor = "create"
    /\ \E valid \in BOOLEAN :
         IF ~valid \/ m_Desc.Usage = "UNIFIED"
         THEN Throw /\ UNCHANGED <<m_Desc>>
         ELSE /\ m_Desc' = [m_Desc EXCEPT !.Size = AlignUp(m_Desc.Size, BufferAlignment(m_Desc))]
              /\ pc' = "place"
              /\ UNCHANGED <<m_pd3d12Resource, loc, Freed>>
    /\ UNCHANGED <<args, m_State, m_CBVDescriptorAllocation, m_MemoryProperties,
                   d3d12Resources, log, NextCmdBufferNumber, NextFenceValue,
                   CompletedFenceValue, StaleResources, ReleaseQueue,
                   Submitted, ImmRefs, AppHeld, hist, views, factory>>

\* IsSuballocatedDynamic admitting only the undefined mode
IsSuballocatedDynamic_UndefinedOnly(desc) ==
    /\ desc.Usage = "DYNAMIC"
    /\ "UNORDERED_ACCESS" \notin desc.BindFlags
    /\ desc.Mode = "UNDEFINED"

\* the buffer is suballocated from the dynamic upload heap when mapped
IsSuballocatedDynamic(desc) ==
    /\ desc.Usage = "DYNAMIC"
    /\ "UNORDERED_ACCESS" \notin desc.BindFlags
    /\ desc.Mode \in {"UNDEFINED", "STRUCTURED"}

CtorDynamic ==
    /\ pc = "place"
    /\ IsSuballocatedDynamic(m_Desc)
    /\ m_State' = "GENERIC_READ"
    /\ pc' = "finish"
    /\ UNCHANGED <<args, m_Desc, m_pd3d12Resource, m_CBVDescriptorAllocation,
                   m_MemoryProperties, loc, d3d12Resources, log, devVars, factory>>

\* D3D12_RESOURCE_DESC flags derived from the bind flags
D3D12ResourceFlags(bind) ==
    (IF "UNORDERED_ACCESS" \in bind \/ "RAY_TRACING" \in bind
     THEN {"ALLOW_UNORDERED_ACCESS"} ELSE {})
    \cup
    (IF "SHADER_RESOURCE" \notin bind /\ "RAY_TRACING" \notin bind
     THEN {"DENY_SHADER_RESOURCE"} ELSE {})

\* D3D12_RESOURCE_DESC of the backing resource
D3D12BuffDesc(desc) == [Width |-> desc.Size, Flags |-> D3D12ResourceFlags(desc.BindFlags)]

\* CtorCreateReserved asking for a committed resource in the device-local heap
CtorCreateReserved_Committed ==
    /\ pc = "place"
    /\ ~IsSuballocatedDynamic(m_Desc)
    /\ m_Desc.Usage = "SPARSE"
    /\ \E hr \in {"S_OK", "E_FAIL"} :
         IF hr = "E_FAIL"
         THEN Throw /\ UNCHANGED <<m_State, d3d12Resources, log>>
         ELSE /\ d3d12Resources' = d3d12Resources \cup
                    {[id |-> "backing", kind |-> "committed", heap |-> "DEFAULT",
                      desc |-> D3D12BuffDesc(m_Desc), state |-> "COMMON"]}
              /\ log' = Append(log, [op |-> "CreateCommittedResource", heap |-> "DEFAULT",
                                     width |-> D3D12BuffDesc(m_Desc).Width,
                                     tracked |-> m_State])
              /\ m_pd3d12Resource' = "backing"
              /\ m_State' = "UNDEFINED"
              /\ pc' = "finish"
              /\ UNCHANGED <<loc, Freed>>
    /\ UNCHANGED <<args, m_Desc, m_CBVDescriptorAllocation, m_MemoryProperties,
                   NextCmdBufferNumber, NextFenceValue, CompletedFenceValue,
                   StaleResources, ReleaseQueue, Submitted, ImmRefs, AppHeld, hist, views, factory>>

\* CreateReservedResource for a sparse buffer; hr may report failure
CtorCreateReserved ==
    /\ pc = "place"
    /\ ~IsSuballocatedDynamic(m_Desc)
    /\ m_Desc.Usage = "SPARSE"
    /\ \E hr \in {"S_OK", "E_FAIL"} :
         IF hr = "E_FAIL"
         THEN Throw /\ UNCHANGED <<m_State, d3d12Resources, log>>
         ELSE /\ d3d12Resources' = d3d12Resources \cup
                    {[id |-> "backing", kind |-> "reserved", heap |-> Null,
                      desc |-> D3D12BuffDesc(m_Desc), state |-> "COMMON"]}
              /\ log' = Append(log, [op |-> "CreateReservedResource"])
              /\ m_pd3d12Resource' = "backing"
              /\ m_State' = "UNDEFINED"
              /\ pc' = "finish"
              /\ UNCHANGED <<loc, Freed>>
    /\ UNCHANGED <<args, m_Desc, m_CBVDescriptorAllocation, m_MemoryProperties,
                   NextCmdBufferNumber, NextFenceValue, CompletedFenceValue,
                   StaleResources, ReleaseQueue, Submitted, ImmRefs, AppHeld, hist, views, factory>>

\* HeapTypeFor with the two host pools exchanged
HeapTypeFor_Swapped(desc) ==
    IF desc.Usage = "STAGING"
    THEN (IF desc.CPUAccessFlags = {"READ"} THEN "UPLOAD" ELSE "READBACK")
    ELSE "DEFAULT"

\* heap type of a committed backing resource
HeapTypeFor(desc) ==
    IF desc.Usage = "STAGING"
    THEN (IF desc.CPUAccessFlags = {"READ"} THEN "READBACK" ELSE "UPLOAD")
    ELSE "DEFAULT"

\* InitialDataSizeOf taking the supplied size without the clamp to the width
InitialDataSizeOf_Unclamped(pBuffData, width) ==
    IF ~pBuffData.isNull /\ pBuffData.pData THEN pBuffData.DataSize ELSE 0

\* InitialDataSize = min(DataSize, Width) when data was supplied, else 0
InitialDataSizeOf(pBuffData, width) ==
    IF ~pBuffData.isNull /\ pBuffData.pData THEN Min(pBuffData.DataSize, width) ELSE 0

\* PlacementState without the copy-destination override for initial data
PlacementState_NoCopyDest(heap, dataSize) ==
    IF heap = "READBACK" THEN "COPY_DEST"
    ELSE IF heap = "UPLOAD" THEN "GENERIC_READ" ELSE "UNDEFINED"

\* PlacementState without the fallback to Undefined for a state still unknown
PlacementState_NoFallback(heap, dataSize) ==
    LET s1 == IF heap = "READBACK" THEN "COPY_DEST"
              ELSE IF heap = "UPLOAD" THEN "GENERIC_READ" ELSE "UNKNOWN"
    IN  IF dataSize > 0 THEN "COPY_DEST" ELSE s1

\* the state the tracker holds before the backing resource is created
PlacementState(heap, dataSize) ==
    LET s1 == IF heap = "READBACK" THEN "COPY_DEST"
              ELSE IF heap = "UPLOAD" THEN "GENERIC_READ" ELSE "UNKNOWN"
        s2 == IF dataSize > 0 THEN "COPY_DEST" ELSE s1
    IN  IF s2 = "UNKNOWN" THEN "UNDEFINED" ELSE s2

\* CmdQueueIndOf ignoring the supplied device context
CmdQueueIndOf_MaskOnly(pBuffData, mask) == GetLSB(mask)

\* queue that executes the upload
CmdQueueIndOf(pBuffData, mask) ==
    IF ~pBuffData.isNull /\ pBuffData.pContext # NoQueue
    THEN pBuffData.pContext ELSE GetLSB(mask)

\* ResourceStateFlagsToD3D12ResourceStates(GetState()) & StateMask, for the three
\* states the constructor can hold here; every command list type supports
\* COPY_DEST and COMMON
D3D12StateOf(s) ==
    CASE s = "UNDEFINED" -> "COMMON"
      [] s = "GENERIC_READ" -> "D3D12_GENERIC_READ"
      [] s = "COPY_DEST" -> "D3D12_COPY_DEST"
      [] OTHER -> "COMMON"

\* heap selection, tracked state, initial data size and queue of the upload; with
\* initial data the supported-state mask is looked up for the queue's type
CtorSelectHeap ==
    /\ pc = "place"
    /\ ~IsSuballocatedDynamic(m_Desc)
    /\ m_Desc.Usage # "SPARSE"
    /\ LET heap == HeapTypeFor(m_Desc)
           ids  == InitialDataSizeOf(args.pBuffData, D3D12BuffDesc(m_Desc).Width)
           st   == PlacementState(heap, ids)
           q    == CmdQueueIndOf(args.pBuffData, m_Desc.ImmediateContextMask)
       IN  /\ m_State' = st
           /\ loc' = [loc EXCEPT !.HeapType = heap, !.InitialDataSize = ids,
                                 !.CmdQueueInd = q,
                                 !.d3d12State = D3D12StateOf(st)]
           /\ log' = IF ids > 0
                     THEN Append(log, [op |-> "GetCommandQueueType", queue |-> q])
                     ELSE log
    /\ pc' = "create"
    /\ UNCHANGED <<args, m_Desc, m_pd3d12Resource, m_CBVDescriptorAllocation,
                   m_MemoryProperties, d3d12Resources, devVars, factory>>

\* CreateCommittedResource for the backing resource; hr may report failure
CtorCreateCommitted ==
    /\ pc = "create"
    /\ \E hr \in {"S_OK", "E_FAIL"} :
         IF hr = "E_FAIL"
         THEN Throw /\ UNCHANGED <<d3d12Resources, log>>
         ELSE /\ d3d12Resources' = d3d12Resources \cup
                    {[id |-> "backing", kind |-> "committed", heap |-> loc.HeapType,
                      desc |-> D3D12BuffDesc(m_Desc), state |-> loc.d3d12State]}
              /\ log' = Append(log, [op |-> "CreateCommittedResource", heap |-> loc.HeapType,
                                     width |-> D3D12BuffDesc(m_Desc).Width,
                                     tracked |-> m_State])
              /\ m_pd3d12Resource' = "backing"
              /\ pc' = IF loc.InitialDataSize > 0 THEN "upload" ELSE "cbv"
              /\ UNCHANGED <<loc, Freed>>
    /\ UNCHANGED <<args, m_Desc, m_State, m_CBVDescriptorAllocation, m_MemoryProperties,
                   NextCmdBufferNumber, NextFenceValue, CompletedFenceValue,
                   StaleResources, ReleaseQueue, Submitted, ImmRefs, AppHeld, hist, views, factory>>


\* CreateCommittedResource for the upload (staging) buffer, sized to the backing
\* width; hr may report failure
CtorCreateUploadBuffer ==
    /\ pc = "upload"
    /\ \E hr \in {"S_OK", "E_FAIL"} :
         IF hr = "E_FAIL"
         THEN Throw /\ UNCHANGED <<d3d12Resources, log>>
         ELSE /\ d3d12Resources' = d3d12Resources \cup
                    {[id |-> "upload", kind |-> "committed", heap |-> "UPLOAD",
                      desc |-> [Width |-> D3D12BuffDesc(m_Desc).Width, Flags |-> {}],
                      state |-> "D3D12_GENERIC_READ"]}
              /\ log' = Append(log, [op |-> "CreateCommittedResource", heap |-> "UPLOAD",
                                     width |-> D3D12BuffDesc(m_Desc).Width,
                                     tracked |-> m_State])
              /\ loc' = [loc EXCEPT !.UploadBuffer = "upload"]
              /\ pc' = "map"
              /\ UNCHANGED <<m_pd3d12Resource, Freed>>
    /\ UNCHANGED <<args, m_Desc, m_State, m_CBVDescriptorAllocation, m_MemoryProperties,
                   NextCmdBufferNumber, NextFenceValue, CompletedFenceValue,
                   StaleResources, ReleaseQueue, Submitted, ImmRefs, AppHeld, hist, views, factory>>

\* CtorMapAndCopy whose failure path hands the upload buffer to the release
\* queue before the fatal error
CtorMapAndCopy_ReleaseThenThrow ==
    /\ pc = "map"
    /\ \E hr \in {"S_OK", "E_FAIL"} :
         IF hr = "E_FAIL"
         THEN /\ StaleResources' = SafeReleaseDeviceObject(loc.UploadBuffer,
                                                           {loc.CmdQueueInd})
              /\ pc' = "failed"
              /\ Freed' = Freed \cup {m_pd3d12Resource}
              /\ m_pd3d12Resource' = Null
              /\ loc' = [loc EXCEPT !.UploadBuffer = Null]
              /\ UNCHANGED <<log>>
         ELSE /\ loc' = [loc EXCEPT !.Copied = loc.InitialDataSize]
              /\ log' = Append(log, [op |-> "memcpy", size |-> loc.InitialDataSize])
              /\ pc' = "alloc_ctx"
              /\ UNCHANGED <<m_pd3d12Resource, Freed, StaleResources>>
    /\ UNCHANGED <<args, m_Desc, m_State, m_CBVDescriptorAllocation, m_MemoryProperties,
                   d3d12Resources, NextCmdBufferNumber, NextFenceValue, CompletedFenceValue,
                   ReleaseQueue, Submitted, ImmRefs, AppHeld, hist, views, factory>>

\* Map, memcpy of InitialDataSize bytes, Unmap; Map may report failure
CtorMapAndCopy ==
    /\ pc = "map"
    /\ \E hr \in {"S_OK", "E_FAIL"} :
         IF hr = "E_FAIL"
         THEN Throw /\ UNCHANGED <<log>>
         ELSE /\ loc' = [loc EXCEPT !.Copied = loc.InitialDataSize]
              /\ log' = Append(log, [op |-> "memcpy", size |-> loc.InitialDataSize])
              /\ pc' = "alloc_ctx"
              /\ UNCHANGED <<m_pd3d12Resource, Freed>>
    /\ UNCHANGED <<args, m_Desc, m_State, m_CBVDescriptorAllocation, m_MemoryProperties,
                   d3d12Resources, NextCmdBufferNumber, NextFenceValue, CompletedFenceValue,
                   StaleResources, ReleaseQueue, Submitted, ImmRefs, AppHeld, hist, views, factory>>

\* AllocateCommandContext(CmdQueueInd): a pooled context for the upload queue
CtorAllocateCommandContext ==
    /\ pc = "alloc_ctx"
    /\ loc' = [loc EXCEPT !.InitContext = [queue |-> loc.CmdQueueInd, refs |-> {}]]
    /\ log' = Append(log, [op |-> "AllocateCommandContext", queue |-> loc.CmdQueueInd])
    /\ pc' = "copy"
    /\ UNCHANGED <<args, m_Desc, m_State, m_pd3d12Resource, m_CBVDescriptorAllocation,
                   m_MemoryProperties, d3d12Resources, devVars, factory>>

\* CtorCopyResource going through the context's TransitionResource first, which
\* takes and drops a reference to the buffer
CtorCopyResource_WithTransition ==
    /\ pc = "copy"
    /\ loc' = [loc EXCEPT !.InitContext.refs = {m_pd3d12Resource, loc.UploadBuffer}]
    /\ log' = log \o <<[op |-> "AddRef"],
                       [op |-> "TransitionResource", state |-> "COPY_DEST"],
                       [op |-> "Release"],
                       [op |-> "CopyResource", dst |-> m_pd3d12Resource,
                        src |-> loc.UploadBuffer, tracked |-> m_State]>>
    /\ pc' = "exec"
    /\ UNCHANGED <<args, m_Desc, m_State, m_pd3d12Resource, m_CBVDescriptorAllocation,
                   m_MemoryProperties, d3d12Resources, devVars, factory>>

\* InitContext->CopyResource(m_pd3d12Resource, UploadBuffer): the raw copy, recorded
\* without a state transition
CtorCopyResource ==
    /\ pc = "copy"
    /\ loc' = [loc EXCEPT !.InitContext.refs = {m_pd3d12Resource, loc.UploadBuffer}]
    /\ log' = Append(log, [op |-> "CopyResource", dst |-> m_pd3d12Resource,
                           src |-> loc.UploadBuffer, tracked |-> m_State])
    /\ pc' = "exec"
    /\ UNCHANGED <<args, m_Desc, m_State, m_pd3d12Resource, m_CBVDescriptorAllocation,
                   m_MemoryProperties, d3d12Resources, devVars, factory>>

\* CtorCloseAndExecute submitting the list the way the immediate context submits
\* its command buffers
CtorCloseAndExecute_AsCommandBuffer ==
    /\ pc = "exec"
    /\ SubmitCommandBuffer(loc.CmdQueueInd, loc.InitContext.refs, StaleResources)
    /\ loc' = [loc EXCEPT !.InitContext = NoContext,
                          !.CopyFence = NextFenceValue[loc.CmdQueueInd]]
    /\ log' = Append(log, [op |-> "CloseAndExecuteTransientCommandContext",
                           queue |-> loc.CmdQueueInd])
    /\ pc' = "release"
    /\ UNCHANGED <<args, m_Desc, m_State, m_pd3d12Resource, m_CBVDescriptorAllocation,
                   m_MemoryProperties, d3d12Resources,
                   CompletedFenceValue, Freed, ImmRefs, AppHeld, hist, views, factory>>

\* CloseAndExecuteTransientCommandContext(CmdQueueInd, std::move(InitContext))
CtorCloseAndExecute ==
    /\ pc = "exec"
    /\ SubmitTransient(loc.CmdQueueInd, loc.InitContext.refs)
    /\ loc' = [loc EXCEPT !.InitContext = NoContext,
                          !.CopyFence = NextFenceValue[loc.CmdQueueInd]]
    /\ log' = Append(log, [op |-> "CloseAndExecuteTransientCommandContext",
                           queue |-> loc.CmdQueueInd])
    /\ pc' = "release"
    /\ UNCHANGED <<args, m_Desc, m_State, m_pd3d12Resource, m_CBVDescriptorAllocation,
                   m_MemoryProperties, d3d12Resources,
                   CompletedFenceValue, StaleResources, Freed, ImmRefs, AppHeld, hist, views, factory>>

\* Uint64{1} << CmdQueueInd: the mask with the single bit of the queue
QueueBit(q) == {q}

\* CtorReleaseUploadBuffer tagging the release with the buffer's queue-affinity mask
CtorReleaseUploadBuffer_BufferMask ==
    /\ pc = "release"
    /\ StaleResources' = SafeReleaseDeviceObject(loc.UploadBuffer, m_Desc.ImmediateContextMask)
    /\ log' = Append(log, [op |-> "SafeReleaseDeviceObject", res |-> loc.UploadBuffer,
                           mask |-> m_Desc.ImmediateContextMask])
    /\ loc' = [loc EXCEPT !.UploadBuffer = Null]
    /\ pc' = "cbv"
    /\ UNCHANGED <<args, m_Desc, m_State, m_pd3d12Resource, m_CBVDescriptorAllocation,
                   m_MemoryProperties, d3d12Resources, NextCmdBufferNumber, NextFenceValue,
                   CompletedFenceValue, ReleaseQueue, Freed, Submitted, ImmRefs, AppHeld, hist, views, factory>>

\* SafeReleaseDeviceObject(std::move(UploadBuffer), 1 << CmdQueueInd)
CtorReleaseUploadBuffer ==
    /\ pc = "release"
    /\ StaleResources' = SafeReleaseDeviceObject(loc.UploadBuffer, QueueBit(loc.CmdQueueInd))
    /\ log' = Append(log, [op |-> "SafeReleaseDeviceObject", res |-> loc.UploadBuffer,
                           mask |-> QueueBit(loc.CmdQueueInd)])
    /\ loc' = [loc EXCEPT !.UploadBuffer = Null]
    /\ pc' = "cbv"
    /\ UNCHANGED <<args, m_Desc, m_State, m_pd3d12Resource, m_CBVDescriptorAllocation,
                   m_MemoryProperties, d3d12Resources, NextCmdBufferNumber, NextFenceValue,
                   CompletedFenceValue, ReleaseQueue, Freed, Submitted, ImmRefs, AppHeld, hist, views, factory>>

\* CreateCBV with an effective size that is not limited to the largest view
CBVSizeInBytes_NoClamp(bufSize, Offset, Size) ==
    AlignUp(IF Size = 0 THEN bufSize - Offset ELSE Size, D3D12_TEXTURE_DATA_PITCH_ALIGNMENT)

\* CreateCBV(CBVDescriptor, Offset, Size): the size passed to the native call
CBVSizeInBytes(bufSize, Offset, Size) ==
    LET eff == IF Size = 0
               THEN Min(bufSize - Offset, D3D12_REQ_CONSTANT_BUFFER_ELEMENT_COUNT * 16)
               ELSE Size
    IN  AlignUp(eff, D3D12_TEXTURE_DATA_PITCH_ALIGNMENT)

\* DefaultCBV allocating the descriptor without creating the view in it
DefaultCBV_NoCreate(alloc, bufSize) ==
    [allocated |-> TRUE, created |-> alloc.created, Offset |-> 0, SizeInBytes |-> 0]

\* AllocateDescriptors followed by CreateCBV with offset 0 and size 0
DefaultCBV(alloc, bufSize) ==
    [allocated |-> TRUE, created |-> alloc.created + 1, Offset |-> 0,
     SizeInBytes |-> CBVSizeInBytes(bufSize, 0, 0)]

\* default constant-buffer view of a committed uniform buffer
CtorCreateDefaultCBV ==
    /\ pc = "cbv"
    /\ IF "UNIFORM_BUFFER" \in m_Desc.BindFlags
       THEN /\ m_CBVDescriptorAllocation' = DefaultCBV(m_CBVDescriptorAllocation, m_Desc.Size)
            /\ log' = Append(log, [op |-> "CreateCBV"])
       ELSE UNCHANGED <<m_CBVDescriptorAllocation, log>>
    /\ pc' = "finish"
    /\ UNCHANGED <<args, m_Desc, m_State, m_pd3d12Resource, m_MemoryProperties,
                   loc, d3d12Resources, devVars, factory>>

\* m_MemoryProperties = MEMORY_PROPERTY_HOST_COHERENT; the constructor returns
CtorFinish ==
    /\ pc = "finish"
    /\ m_MemoryProperties' = "HOST_COHERENT"
    /\ pc' = "done"
    /\ UNCHANGED <<args, m_Desc, m_State, m_pd3d12Resource, m_CBVDescriptorAllocation,
                   loc, d3d12Resources, log, devVars, factory>>

(***************************************************************************)
(* BufferD3D12Impl::BufferD3D12Impl (attaching to a native resource).      *)
(***************************************************************************)
\* StaticCast<Uint32>(Width): the low 32 bits of the 64-bit width
StaticCastUint32(widthHi, widthLo) == widthLo

\* BufferDescFromD3D12Resource(BuffDesc, pd3d12Buffer)
BufferDescFromD3D12Resource(BuffDesc, native) ==
    LET b1 == IF "ALLOW_UNORDERED_ACCESS" \in native.Flags
              THEN BuffDesc.BindFlags \cup {"UNORDERED_ACCESS"} ELSE BuffDesc.BindFlags
        b2 == IF "DENY_SHADER_RESOURCE" \in native.Flags
              THEN b1 \ {"SHADER_RESOURCE"} ELSE b1 \cup {"SHADER_RESOURCE"}
    IN  [BuffDesc EXCEPT !.Size = StaticCastUint32(native.WidthHi, native.WidthLo),
                         !.BindFlags = b2]

\* the whole attaching constructor: descriptor from the native resource, handle,
\* state, default constant-buffer view, memory properties
CtorAttach ==
    /\ pc = "begin"
    /\ args.ctor = "attach"
    /\ LET desc == BufferDescFromD3D12Resource(args.BuffDesc, args.pd3d12Buffer)
       IN  /\ m_Desc' = desc
           /\ IF "UNIFORM_BUFFER" \in desc.BindFlags
              THEN /\ m_CBVDescriptorAllocation' = DefaultCBV(m_CBVDescriptorAllocation, desc.Size)
                   /\ log' = Append(log, [op |-> "CreateCBV"])
              ELSE UNCHANGED <<m_CBVDescriptorAllocation, log>>
    /\ m_pd3d12Resource' = "native"
    /\ m_State' = args.InitialState
    /\ m_MemoryProperties' = "HOST_COHERENT"
    /\ pc' = "done"
    /\ UNCHANGED <<args, loc, d3d12Resources, devVars, factory>>

(***************************************************************************)
(* Operations on a constructed buffer.                                     *)
(***************************************************************************)
\* SetD3D12ResourceState / SetState by the executing context: unconditional overwrite
SetState ==
    /\ pc = "done"
    /\ \E s \in KnownStates : s # m_State /\ m_State' = s
    /\ hist' = [hist EXCEPT !.StateSet = TRUE]
    /\ UNCHANGED <<pc, args, m_Desc, m_pd3d12Resource, m_CBVDescriptorAllocation,
                   m_MemoryProperties, loc, d3d12Resources, log,
                   NextCmdBufferNumber, NextFenceValue, CompletedFenceValue,
                   StaleResources, ReleaseQueue, Freed, Submitted, ImmRefs, AppHeld,
                   views, factory>>

\* Destroy releasing the backing resource for the lowest queue of the mask only
Destroy_LowestQueueOnly ==
    /\ pc = "done"
    /\ StaleResources' = SafeReleaseDeviceObject(m_pd3d12Resource,
                                                 {GetLSB(m_Desc.ImmediateContextMask)})
    /\ log' = Append(log, [op |-> "SafeReleaseDeviceObject", res |-> m_pd3d12Resource,
                           mask |-> {GetLSB(m_Desc.ImmediateContextMask)}])
    /\ m_pd3d12Resource' = Null
    /\ hist' = [hist EXCEPT !.DestroyFence = [q \in Queues |-> NextFenceValue[q] - 1]]
    /\ pc' = "destroyed"
    /\ UNCHANGED <<args, m_Desc, m_State, m_CBVDescriptorAllocation, m_MemoryProperties,
                   loc, d3d12Resources, NextCmdBufferNumber, NextFenceValue,
                   CompletedFenceValue, ReleaseQueue, Freed, Submitted, ImmRefs, AppHeld,
                   views, factory>>

\* ~BufferD3D12Impl: the backing resource is moved to the release queue with the
\* buffer's queue-affinity mask (hist records the last fence value submitted on
\* every queue at that moment)
Destroy ==
    /\ pc = "done"
    /\ StaleResources' = SafeReleaseDeviceObject(m_pd3d12Resource, m_Desc.ImmediateContextMask)
    /\ log' = Append(log, [op |-> "SafeReleaseDeviceObject", res |-> m_pd3d12Resource,
                           mask |-> m_Desc.ImmediateContextMask])
    /\ m_pd3d12Resource' = Null
    /\ hist' = [hist EXCEPT !.DestroyFence = [q \in Queues |-> NextFenceValue[q] - 1]]
    /\ pc' = "destroyed"
    /\ UNCHANGED <<args, m_Desc, m_State, m_CBVDescriptorAllocation, m_MemoryProperties,
                   loc, d3d12Resources, NextCmdBufferNumber, NextFenceValue,
                   CompletedFenceValue, ReleaseQueue, Freed, Submitted, ImmRefs, AppHeld,
                   views, factory>>

(***************************************************************************)
(* Views created on a constructed buffer.                                  *)
(***************************************************************************)
\* buffer sizes around the largest constant-buffer view (65536 bytes)
ViewBufferSizes ==
    {128 * k : k \in 1 .. MaxViewUnits + 1} \cup
    {D3D12_REQ_CONSTANT_BUFFER_ELEMENT_COUNT * 16 + 512 * k : k \in 0 .. MaxViewUnits}

ViewOffsets == {D3D12_TEXTURE_DATA_PITCH_ALIGNMENT * k : k \in 0 .. MaxViewUnits}

ViewSizes == {100 * k : k \in 0 .. MaxViewUnits}

BufferViewTypes == {"UNDEFINED", "SHADER_RESOURCE", "UNORDERED_ACCESS"}

\* ID3D12Resource::GetGPUVirtualAddress of the backing resource
GetGPUVirtualAddress(res) == IF res = "native" THEN 1048576 ELSE 2097152

\* D3D12_CONSTANT_BUFFER_VIEW_DESC that CreateCBV(CBVDescriptor, Offset, Size) writes
CBVDesc(Offset, Size) ==
    [Offset |-> Offset, Size |-> Size,
     BufferLocation |-> GetGPUVirtualAddress(m_pd3d12Resource) + Offset,
     SizeInBytes |-> CBVSizeInBytes(m_Desc.Size, Offset, Size)]

\* CreateCBV called by a user of the buffer with a descriptor of its own; the
\* two VERIFYs are the caller's contract
CreateCBV ==
    /\ pc = "done"
    /\ m_pd3d12Resource # Null
    /\ views.calls + views.cbvCalls < MaxViewCalls
    /\ \E Offset \in ViewOffsets, Size \in ViewSizes :
          /\ Offset % D3D12_TEXTURE_DATA_PITCH_ALIGNMENT = 0
          /\ Offset + Size <= m_Desc.Size
          /\ views' = [views EXCEPT !.cbvCalls = views.cbvCalls + 1,
                                    !.cbv = CBVDesc(Offset, Size)]
    /\ UNCHANGED <<bufVars, NextCmdBufferNumber, NextFenceValue, CompletedFenceValue,
                   StaleResources, ReleaseQueue, Freed, Submitted, ImmRefs, AppHeld, hist, factory>>

\* the view object NEW_RC_OBJ makes; a view that is not a default view gets AddRef
NewBufferView(ViewType, bIsDefaultView) ==
    [ViewType |-> ViewType, bIsDefaultView |-> bIsDefaultView,
     refs |-> IF bIsDefaultView THEN 0 ELSE 1]

\* CreateViewInternal without the try/catch: the exception of CreateUAV /
\* CreateSRV leaves the function
CreateViewInternal_NoCatch(ViewType, valid, ppViewNull, bIsDefaultView) ==
    LET call == [views EXCEPT !.calls = views.calls + 1,
                              !.last = [ViewType |-> ViewType, valid |-> valid,
                                        ppViewNull |-> ppViewNull]]
    IN  views' =
          IF ppViewNull THEN call
          ELSE IF ViewType \in {"UNORDERED_ACCESS", "SHADER_RESOURCE"}
          THEN IF valid
               THEN [call EXCEPT !.ppView = NewBufferView(ViewType, bIsDefaultView),
                                 !.descriptors = views.descriptors + 1]
               ELSE [call EXCEPT !.ppView = NoView, !.thrown = TRUE]
          ELSE [call EXCEPT !.ppView = NoView]

\* CreateViewInternal(OrigViewDesc, ppView, bIsDefaultView); valid tells whether
\* ValidateAndCorrectBufferViewDesc accepts the description or throws
\* std::runtime_error in CreateUAV / CreateSRV. On the exception the descriptor
\* allocation is released by unwinding and the catch block logs the error.
CreateViewInternal(ViewType, valid, ppViewNull, bIsDefaultView) ==
    LET call == [views EXCEPT !.calls = views.calls + 1,
                              !.last = [ViewType |-> ViewType, valid |-> valid,
                                        ppViewNull |-> ppViewNull]]
    IN  views' =
          IF ppViewNull THEN call
          ELSE IF ViewType \in {"UNORDERED_ACCESS", "SHADER_RESOURCE"}
          THEN IF valid
               THEN [call EXCEPT !.ppView = NewBufferView(ViewType, bIsDefaultView),
                                 !.descriptors = views.descriptors + 1]
               ELSE [call EXCEPT !.ppView = NoView, !.errors = views.errors + 1]
          ELSE [call EXCEPT !.ppView = NoView]

\* a caller (the device's CreateView, or the creation of the default views)
\* calls CreateViewInternal with an output pointer that holds null
CreateView ==
    /\ pc = "done"
    /\ views.calls + views.cbvCalls < MaxViewCalls
    /\ \E ViewType \in BufferViewTypes, valid \in BOOLEAN, ppViewNull \in BOOLEAN,
          bIsDefaultView \in BOOLEAN :
          CreateViewInternal(ViewType, valid, ppViewNull, bIsDefaultView)
    /\ UNCHANGED <<bufVars, NextCmdBufferNumber, NextFenceValue, CompletedFenceValue,
                   StaleResources, ReleaseQueue, Freed, Submitted, ImmRefs, AppHeld, hist, factory>>

(***************************************************************************)
(* Immediate contexts, GPU and release queue of the render device.         *)
(***************************************************************************)
\* the queue whose immediate context the application draws with: the queue the
\* buffer's constructor submits its upload to
AppQueue == CmdQueueIndOf(args.pBuffData, args.BuffDesc.ImmediateContextMask)

\* the immediate context of the application's queue records a draw that uses an
\* application resource
ImmDraw ==
    /\ \E q \in {AppQueue}, x \in AppHeld :
          /\ x \notin ImmRefs[q]
          /\ ImmRefs' = [ImmRefs EXCEPT ![q] = ImmRefs[q] \cup {x}]
    /\ UNCHANGED <<bufVars, NextCmdBufferNumber, NextFenceValue, CompletedFenceValue,
                   StaleResources, ReleaseQueue, Freed, Submitted, AppHeld, hist, views, factory>>

\* the application releases a resource: SafeReleaseDeviceObject with the bit of
\* the queue it is used on
ImmRelease ==
    /\ \E x \in AppHeld :
          /\ StaleResources' = SafeReleaseDeviceObject(x, QueueBit(AppQueue))
          /\ AppHeld' = AppHeld \ {x}
          /\ hist' = IF pc = "exec"
                     THEN [hist EXCEPT !.RelDuringCopy = hist.RelDuringCopy \cup {x}]
                     ELSE hist
    /\ UNCHANGED <<bufVars, NextCmdBufferNumber, NextFenceValue, CompletedFenceValue,
                   ReleaseQueue, Freed, Submitted, ImmRefs, views, factory>>

\* the immediate context of queue q flushes: its open list is submitted
ImmSubmit ==
    /\ \E q \in Queues :
          /\ hist.ImmSubmits < MaxCmdBuffers
          /\ SubmitCommandBuffer(q, ImmRefs[q], StaleResources)
          /\ ImmRefs' = [ImmRefs EXCEPT ![q] = {}]
    /\ hist' = [hist EXCEPT !.ImmSubmits = hist.ImmSubmits + 1]
    /\ UNCHANGED <<bufVars, CompletedFenceValue, Freed, AppHeld, views, factory>>

\* the GPU finishes the oldest pending list of queue q and signals its fence value
GpuSignal ==
    /\ \E q \in Queues :
          /\ CompletedFenceValue[q] + 1 < NextFenceValue[q]
          /\ CompletedFenceValue' = [CompletedFenceValue EXCEPT ![q] = CompletedFenceValue[q] + 1]
          /\ Submitted' = {l \in Submitted : ~(l.queue = q /\ l.fence = CompletedFenceValue[q] + 1)}
    /\ UNCHANGED <<bufVars, NextCmdBufferNumber, NextFenceValue, StaleResources,
                   ReleaseQueue, Freed, ImmRefs, AppHeld, hist, views, factory>>

\* the release queue of queue q is purged up to the completed fence value; an
\* object is destroyed when no queue holds it any more
Purge ==
    /\ \E q \in Queues :
          LET gone == {r \in ReleaseQueue : r.queue = q /\ r.fence <= CompletedFenceValue[q]}
              rest == ReleaseQueue \ gone
          IN  /\ gone # {}
              /\ ReleaseQueue' = rest
              /\ Freed' = Freed \cup
                    {r.res : r \in {g \in gone :
                        \A o \in rest \cup StaleResources : o.res # g.res}}
    /\ UNCHANGED <<bufVars, NextCmdBufferNumber, NextFenceValue, CompletedFenceValue,
                   StaleResources, Submitted, ImmRefs, AppHeld, hist, views, factory>>

Next ==
    \/ CtorBegin
    \/ CtorDynamic
    \/ CtorCreateReserved
    \/ CtorSelectHeap
    \/ CtorCreateCommitted
    \/ CtorCreateUploadBuffer
    \/ CtorMapAndCopy
    \/ CtorAllocateCommandContext
    \/ CtorCopyResource
    \/ CtorCloseAndExecute
    \/ CtorReleaseUploadBuffer
    \/ CtorCreateDefaultCBV
    \/ CtorFinish
    \/ CtorAttach
    \/ SetState
    \/ Destroy

Spec == Init /\ [][Next]_vars

\* buffers built while the immediate contexts and the GPU run: device-local
\* buffers with and without initial data, with and without a device context
ConcArgs ==
    {a \in CreateArgs :
        /\ a.BuffDesc.Usage = "DEFAULT"
        /\ a.BuffDesc.BindFlags = {}
        /\ a.BuffDesc.CPUAccessFlags = {}
        /\ a.BuffDesc.Size = 128
        /\ (a.pBuffData.isNull \/ (a.pBuffData.pData /\ a.pBuffData.DataSize = 200))}

InitConc == InitDevice /\ factory = NoFactory /\ \E a \in ConcArgs : InitBuffer(a)

NextConc ==
    \/ CtorBegin
    \/ CtorSelectHeap
    \/ CtorCreateCommitted
    \/ CtorCreateUploadBuffer
    \/ CtorMapAndCopy
    \/ CtorAllocateCommandContext
    \/ CtorCopyResource
    \/ CtorCloseAndExecute
    \/ CtorReleaseUploadBuffer
    \/ CtorCreateDefaultCBV
    \/ CtorFinish
    \/ Destroy
    \/ ImmDraw
    \/ ImmRelease
    \/ ImmSubmit
    \/ GpuSignal
    \/ Purge

SpecConc == InitConc /\ [][NextConc]_vars

\* buffers that views are created on: device-local buffers without initial data,
\* built by the allocating constructor or attached to a native resource, of
\* sizes below and above the largest constant-buffer view
ViewArgs ==
    [ctor : {"create"},
     BuffDesc : [Usage : {"DEFAULT"}, BindFlags : SUBSET {"UNIFORM_BUFFER", "UNORDERED_ACCESS"},
                 CPUAccessFlags : {{}}, Mode : {"RAW"}, Size : ViewBufferSizes,
                 ImmediateContextMask : {{0}}],
     pBuffData : {NullBuffData}, InitialState : {"UNKNOWN"}, pd3d12Buffer : {NoNativeDesc}]
    \cup
    [ctor : {"attach"},
     BuffDesc : [Usage : {"DEFAULT"}, BindFlags : {{}, {"UNIFORM_BUFFER"}},
                 CPUAccessFlags : {{}}, Mode : {"RAW"}, Size : {0},
                 ImmediateContextMask : {{0}}],
     pBuffData : {NullBuffData}, InitialState : {"UNKNOWN", "GENERIC_READ"},
     pd3d12Buffer : [WidthHi : {0}, WidthLo : ViewBufferSizes, Flags : {{}}]]

InitView == InitDevice /\ factory = NoFactory /\ \E a \in ViewArgs : InitBuffer(a)

NextView ==
    \/ CtorBegin
    \/ CtorSelectHeap
    \/ CtorCreateCommitted
    \/ CtorCreateDefaultCBV
    \/ CtorFinish
    \/ CtorAttach
    \/ CreateCBV
    \/ CreateView
    \/ SetState

SpecView == InitView /\ [][NextView]_vars

(***************************************************************************)
(* CompoundShaderSourceFactory.                                            *)
(***************************************************************************)
\* m_FileSubstituteMap.emplace(Name, Substitute): an existing key is kept
Emplace(map, p) == IF \E e \in map : e.Name = p.Name THEN map ELSE map \cup {p}

RECURSIVE EmplaceAll(_, _, _)
\* the constructor's loop over pFileSubstitutes, from entry i on
EmplaceAll(items, i, map) ==
    IF i > Len(items) THEN map ELSE EmplaceAll(items, i + 1, Emplace(map, items[i]))

\* the constructor: the child factories are copied in the given order, the
\* substitutes are put into the map; a null array is skipped
CreateCompoundShaderSourceFactory ==
    /\ factory.pc = "new"
    /\ factory' = [factory EXCEPT
          !.pc = "ready",
          !.m_pFactories = IF factory.CI.ppFactoriesNull THEN <<>>
                           ELSE factory.CI.ppFactories,
          !.m_FileSubstituteMap = IF factory.CI.pFileSubstitutesNull THEN {}
                                  ELSE EmplaceAll(factory.CI.pFileSubstitutes, 1, {})]
    /\ UNCHANGED <<bufVars, devVars>>

\* the substitution step looking the substitute up again, until no key matches
FindSubstitute_Transitive(map, Name) ==
    LET step(n) == IF \E e \in map : e.Name = n
                   THEN (CHOOSE e \in map : e.Name = n).Substitute ELSE n
    IN  step(step(step(Name)))

\* m_FileSubstituteMap.find(Name): the substitute if Name is a key, else Name
FindSubstitute(map, Name) ==
    IF map # {} /\ \E e \in map : e.Name = Name
    THEN (CHOOSE e \in map : e.Name = Name).Substitute
    ELSE Name

\* m_pFactories[i]->CreateInputStream2(Name, SILENT, ppStream) of a child
\* factory: the stream of the file if the child has it, else null
ChildCreateInputStream2(i, child, Name) ==
    IF Name \in child.files THEN [factory |-> i, Name |-> Name] ELSE NoStream

RECURSIVE AskFactories(_, _, _, _)
\* the loop over m_pFactories from index i on: it ends when a stream was
\* produced; a null entry is skipped; every child is asked with the SILENT flag
AskFactories(facs, i, Name, st) ==
    IF i > Len(facs) \/ st.ppStream # NoStream THEN st
    ELSE AskFactories(facs, i + 1, Name,
            IF facs[i].isNull THEN st
            ELSE [ppStream |-> ChildCreateInputStream2(i, facs[i], Name),
                  asked |-> Append(st.asked, [index |-> i, Name |-> Name,
                                              Flags |-> {"SILENT"}])])

\* CreateInputStream2(Name, Flags, ppStream) with *ppStream null on entry: the
\* stream, the children asked and the errors logged
CreateInputStream2(Name, Flags) ==
    LET Substituted == FindSubstitute(factory.m_FileSubstituteMap, Name)
        r == AskFactories(factory.m_pFactories, 1, Substituted,
                          [ppStream |-> NoStream, asked |-> <<>>])
    IN  [ppStream |-> r.ppStream, asked |-> r.asked,
         errors |-> IF r.ppStream = NoStream /\ "SILENT" \in Flags
                    THEN <<Substituted>> ELSE <<>>]

\* CreateInputStream(Name, ppStream)
CreateInputStream(Name) == CreateInputStream2(Name, {})

\* a caller opens a file through CreateInputStream
CallCreateInputStream ==
    /\ factory.pc = "ready"
    /\ \E Name \in FileNames :
          LET r == CreateInputStream(Name)
          IN  factory' = [factory EXCEPT
                 !.call = [entry |-> "CreateInputStream", Name |-> Name, Flags |-> {}],
                 !.ppStream = r.ppStream, !.asked = r.asked, !.errors = r.errors]
    /\ UNCHANGED <<bufVars, devVars>>

\* a caller opens a file through CreateInputStream2, with or without SILENT
CallCreateInputStream2 ==
    /\ factory.pc = "ready"
    /\ \E Name \in FileNames, Flags \in {{}, {"SILENT"}} :
          LET r == CreateInputStream2(Name, Flags)
          IN  factory' = [factory EXCEPT
                 !.call = [entry |-> "CreateInputStream2", Name |-> Name, Flags |-> Flags],
                 !.ppStream = r.ppStream, !.asked = r.asked, !.errors = r.errors]
    /\ UNCHANGED <<bufVars, devVars>>

\* the buffer of a state in which only the compound factory acts
IdleBufferArgs ==
    [ctor |-> "create",
     BuffDesc |-> [Usage |-> "DEFAULT", BindFlags |-> {}, CPUAccessFlags |-> {},
                   Mode |-> "UNDEFINED", Size |-> 128, ImmediateContextMask |-> {0}],
     pBuffData |-> NullBuffData, InitialState |-> "UNKNOWN", pd3d12Buffer |-> NoNativeDesc]

InitCompound ==
    /\ InitDevice /\ InitBuffer(IdleBufferArgs)
    /\ \E ci \in CompoundShaderSourceFactoryCreateInfos : InitFactory(ci)

NextCompound ==
    \/ CreateCompoundShaderSourceFactory
    \/ CallCreateInputStream
    \/ CallCreateInputStream2

SpecCompound == InitCompound /\ [][NextCompound]_vars


(***************************************************************************)
(* Properties.                                                             *)
(***************************************************************************)
IsCreate == args.ctor = "create"

\* positions of the allocating constructor after the size was aligned
AfterAlign == {"place", "create", "upload", "map", "alloc_ctx", "copy", "exec",
               "release", "cbv", "finish", "done", "destroyed"}

\* the constructor's body has run to its end (it has returned or is returning)
Constructed == pc \in {"finish", "done", "destroyed"}

\* the caller passed a non-null pointer to a non-zero number of bytes
HasInitialData ==
    ~args.pBuffData.isNull /\ args.pBuffData.pData /\ args.pBuffData.DataSize > 0

\* the native resources named "backing" / "upload" that were created
Backing == {r \in d3d12Resources : r.id = "backing"}

Staging == {r \in d3d12Resources : r.id = "upload"}

LogOps(ops) == SelectSeq(log, LAMBDA e : e.op \in ops)

\* C1: constructing a buffer whose usage is unified never gets past the
\* constructor's entry: it fails, and no native resource exists, no command
\* context was allocated or submitted and nothing was handed to the release queue.
C1_UnifiedFails ==
    (IsCreate /\ args.BuffDesc.Usage = "UNIFIED") =>
        /\ pc \in {"begin", "failed"}
        /\ d3d12Resources = {}
        /\ m_pd3d12Resource = Null
        /\ loc.UploadBuffer = Null
        /\ loc.InitContext = NoContext
        /\ Submitted = {}
        /\ StaleResources = {}
        /\ ReleaseQueue = {}
        /\ log = <<>>

C1_Witness ==
    IsCreate /\ args.BuffDesc.Usage = "UNIFIED" /\ pc = "failed" /\ HasInitialData

\* C2: a dynamic buffer without the unordered-access flag and with mode undefined
\* or structured gets no backing resource, no staging resource, no copy and no
\* submission, whatever its size, bind flags, mask and initial data, and its
\* state at the end of construction is GenericRead.
C2_DynamicNoBacking ==
    (/\ IsCreate
     /\ args.BuffDesc.Usage = "DYNAMIC"
     /\ "UNORDERED_ACCESS" \notin args.BuffDesc.BindFlags
     /\ args.BuffDesc.Mode \in {"UNDEFINED", "STRUCTURED"}) =>
        /\ m_pd3d12Resource = Null
        /\ d3d12Resources = {}
        /\ Submitted = {}
        /\ StaleResources = {}
        /\ LogOps({"CreateCommittedResource", "CreateReservedResource", "CopyResource",
                   "AllocateCommandContext", "CloseAndExecuteTransientCommandContext"}) = <<>>
        /\ pc \notin {"create", "upload", "map", "alloc_ctx", "copy", "exec", "release", "cbv"}
        /\ pc = "finish" => m_State = "GENERIC_READ"

C2_Witness ==
    /\ IsCreate /\ args.BuffDesc.Usage = "DYNAMIC" /\ args.BuffDesc.Mode = "STRUCTURED"
    /\ "UNIFORM_BUFFER" \in args.BuffDesc.BindFlags
    /\ HasInitialData
    /\ pc = "finish" /\ m_State = "GENERIC_READ" /\ m_pd3d12Resource = Null

\* a committed backing resource in the device-local pool, built with initial data
DeviceLocalUpload ==
    /\ IsCreate
    /\ HasInitialData
    /\ pc # "failed"
    /\ \/ pc = "create" /\ loc.HeapType = "DEFAULT"
       \/ \E r \in Backing : r.kind = "committed" /\ r.heap = "DEFAULT"

\* C3 (states): with non-empty initial data and a device-local backing allocation
\* the tracked state is CopyDestination before and when the backing resource is
\* created, when the copy is recorded, and up to the end of the constructor.
C3_Inv ==
    DeviceLocalUpload =>
        /\ pc \in {"create", "upload", "map", "alloc_ctx", "copy", "exec", "release",
                   "cbv", "finish"} => m_State = "COPY_DEST"
        /\ \A i \in 1 .. Len(log) :
             log[i].op \in {"CreateCommittedResource", "CopyResource"} =>
                 log[i].tracked = "COPY_DEST"
        /\ \A r \in Backing : r.state = "D3D12_COPY_DEST"

\* C3 (steps): after construction the state leaves CopyDestination only by SetState.
C3_Step ==
    (DeviceLocalUpload /\ pc \in {"finish", "done"} /\ m_State = "COPY_DEST"
       /\ m_State' # "COPY_DEST") => SetState

\* C3: the tracked state of a device-local buffer built with initial data is
\* CopyDestination from before the creation of the backing resource, through the
\* recording of the copy, until an external SetState changes it.
C3_CopyDestUntilSetState == [](C3_Inv) /\ [][C3_Step]_vars

C3_Witness ==
    /\ DeviceLocalUpload /\ pc = "done" /\ m_State = "COPY_DEST"
    /\ \E r \in StaleResources : r.res = "upload"

\* the device calls of the upload pipeline, in the order they were made
UploadEvents ==
    SelectSeq(log, LAMBDA e :
        \/ e.op \in {"AllocateCommandContext", "CopyResource",
                     "CloseAndExecuteTransientCommandContext"}
        \/ (e.op = "SafeReleaseDeviceObject" /\ e.res = "upload"))

UploadOrder ==
    <<"AllocateCommandContext", "CopyResource",
      "CloseAndExecuteTransientCommandContext", "SafeReleaseDeviceObject">>

\* C4: the upload's device calls happen in the order borrow context for Q, record
\* copy staging->backing, close-and-execute on Q, release staging; the release
\* carries exactly the bit of the queue that executed the copy; a construction
\* that uploads makes all four calls.
C4_UploadOrder ==
    LET ev == UploadEvents
    IN  /\ Len(ev) <= Len(UploadOrder)
        /\ \A i \in 1 .. Len(ev) : ev[i].op = UploadOrder[i]
        /\ Len(ev) >= 2 => (ev[2].dst = "backing" /\ ev[2].src = "upload")
        /\ Len(ev) >= 3 => ev[3].queue = ev[1].queue
        /\ Len(ev) >= 4 => (ev[4].mask = {ev[3].queue} /\ Cardinality(ev[4].mask) = 1)
        /\ (\E r \in StaleResources : r.res = "upload") =>
               (Len(ev) = 4 /\ \E l \in Submitted : l.queue = ev[3].queue /\ "upload" \in l.refs)
        /\ (IsCreate /\ loc.InitialDataSize > 0 /\ pc \in {"cbv", "finish", "done", "destroyed"})
               => Len(ev) = 4

C4_Witness ==
    /\ pc = "cbv" /\ Len(UploadEvents) = 4
    /\ m_Desc.ImmediateContextMask = {0, 1}
    /\ UploadEvents[4].mask = {1}

\* command lists that still reference resources: the lists submitted and not yet
\* completed, the open lists of the immediate contexts, the constructor's context
PendingRefs ==
    UNION ({l.refs : l \in Submitted} \cup {ImmRefs[q] : q \in Queues}
           \cup {loc.InitContext.refs})

\* C5: whatever the interleaving of a construction with initial data and the
\* draws, releases and submissions of the immediate context on the upload's
\* queue, the staging resource is reclaimed only after the fence value of the
\* copy's submission was signaled, and a resource the immediate context released
\* (in particular between the recording and the submission of the copy) is never
\* reclaimed while a command list that references it is open or in flight.
C5_NoEarlyReclaim ==
    /\ ("upload" \in Freed /\ pc # "failed") =>
          /\ loc.CopyFence > 0
          /\ CompletedFenceValue[loc.CmdQueueInd] >= loc.CopyFence
    /\ \A x \in AppResources \cap Freed : x \notin PendingRefs
    /\ \A q \in Queues : CompletedFenceValue[q] < NextFenceValue[q]

\* a resource released between the recording and the submission of the copy was
\* reclaimed, and so was the staging resource
C5_Witness ==
    /\ pc \in {"done", "destroyed"}
    /\ HasInitialData
    /\ "upload" \in Freed
    /\ hist.RelDuringCopy \cap Freed # {}

\* C6: destroying the buffer empties its handle and hands the backing resource to
\* the release queue tagged with exactly the buffer's queue-affinity mask, and the
\* resource is freed only when every queue of the mask has signaled all the work
\* submitted before the destruction.
C6_DestroyDeferred ==
    pc = "destroyed" =>
        /\ m_pd3d12Resource = Null
        /\ log[Len(log)] = [op |-> "SafeReleaseDeviceObject", res |-> "backing",
                            mask |-> m_Desc.ImmediateContextMask]
        /\ "backing" \notin Freed =>
              \E r \in StaleResources \cup ReleaseQueue :
                 r.res = "backing" /\ r.queue \in m_Desc.ImmediateContextMask
        /\ "backing" \in Freed =>
              \A q \in m_Desc.ImmediateContextMask :
                 CompletedFenceValue[q] > hist.DestroyFence[q]

\* a buffer with more than one queue in its mask was destroyed while work was in
\* flight, and its backing resource has been freed
C6_Witness ==
    /\ pc = "destroyed"
    /\ Cardinality(m_Desc.ImmediateContextMask) > 1
    /\ \E q \in Queues : hist.DestroyFence[q] > 0
    /\ "backing" \in Freed

\* the size the caller requested
RequestedSize == args.BuffDesc.Size

\* C7 as stated: every constructed buffer with the uniform-buffer flag has a Size
\* that is the smallest multiple of the constant-buffer alignment >= the request.
C7_Original ==
    (Constructed /\ "UNIFORM_BUFFER" \in m_Desc.BindFlags) =>
        /\ m_Desc.Size % D3D12_CONSTANT_BUFFER_DATA_PLACEMENT_ALIGNMENT = 0
        /\ m_Desc.Size >= RequestedSize
        /\ m_Desc.Size - RequestedSize < D3D12_CONSTANT_BUFFER_DATA_PLACEMENT_ALIGNMENT

\* C7 (amended): a buffer with the uniform-buffer flag built by the allocating
\* constructor has, once aligned, a Size that is the smallest multiple of the
\* constant-buffer alignment >= the request; a buffer attached to a native
\* resource has the low 32 bits of the native width as its Size, aligned or not.
C7_UniformAligned ==
    /\ (IsCreate /\ pc \in AfterAlign /\ "UNIFORM_BUFFER" \in m_Desc.BindFlags) =>
          /\ m_Desc.Size % D3D12_CONSTANT_BUFFER_DATA_PLACEMENT_ALIGNMENT = 0
          /\ m_Desc.Size >= RequestedSize
          /\ m_Desc.Size - RequestedSize < D3D12_CONSTANT_BUFFER_DATA_PLACEMENT_ALIGNMENT
    /\ (~IsCreate /\ Constructed) => m_Desc.Size = args.pd3d12Buffer.WidthLo

C7_Witness ==
    /\ IsCreate /\ pc = "done" /\ "UNIFORM_BUFFER" \in m_Desc.BindFlags
    /\ m_Desc.Size > RequestedSize

\* alignment the statement of C8 expects: the maximum of the constant-buffer
\* alignment (uniform flag) and the pitch alignment
C8_Alignment ==
    Max(IF "UNIFORM_BUFFER" \in m_Desc.BindFlags
        THEN D3D12_CONSTANT_BUFFER_DATA_PLACEMENT_ALIGNMENT ELSE 1,
        D3D12_TEXTURE_DATA_PITCH_ALIGNMENT)

\* C8 as stated: a staging buffer with the CPU-write bit, whatever other CPU bits
\* are set, ends with a Size that is a multiple of the alignment.
C8_Original ==
    (IsCreate /\ pc \in AfterAlign /\ m_Desc.Usage = "STAGING"
       /\ "WRITE" \in m_Desc.CPUAccessFlags) =>
        m_Desc.Size % C8_Alignment = 0

\* C8 (amended): a staging buffer whose CPU access flags are exactly write ends
\* with a Size that is a multiple of the alignment; a buffer that is neither
\* uniform nor staging with exactly the write flag keeps the requested Size.
C8_StagingAligned ==
    (IsCreate /\ pc \in AfterAlign) =>
        /\ (m_Desc.Usage = "STAGING" /\ m_Desc.CPUAccessFlags = {"WRITE"}) =>
              (m_Desc.Size % C8_Alignment = 0 /\ m_Desc.Size >= RequestedSize)
        /\ ("UNIFORM_BUFFER" \notin m_Desc.BindFlags
              /\ ~(m_Desc.Usage = "STAGING" /\ m_Desc.CPUAccessFlags = {"WRITE"})) =>
              m_Desc.Size = RequestedSize

C8_Witness ==
    /\ IsCreate /\ pc = "done" /\ m_Desc.Usage = "STAGING"
    /\ m_Desc.CPUAccessFlags = {"WRITE"} /\ "UNIFORM_BUFFER" \notin m_Desc.BindFlags
    /\ m_Desc.Size > RequestedSize

\* the constructor reached the committed allocation and it succeeded
CommittedBacking ==
    /\ IsCreate
    /\ m_Desc.Usage \notin {"SPARSE", "UNIFIED"}
    /\ ~(m_Desc.Usage = "DYNAMIC" /\ "UNORDERED_ACCESS" \notin m_Desc.BindFlags
          /\ m_Desc.Mode \in {"UNDEFINED", "STRUCTURED"})
    /\ pc \in {"upload", "map", "alloc_ctx", "copy", "exec", "release",
               "cbv", "finish", "done"}

\* C9 as stated: readback for staging with CPU-read, upload for staging with
\* CPU-write, device-local in every other case.
C9_Original ==
    CommittedBacking =>
        \A r \in Backing :
            r.heap = IF m_Desc.Usage = "STAGING" /\ "READ" \in m_Desc.CPUAccessFlags
                       THEN "READBACK"
                     ELSE IF m_Desc.Usage = "STAGING" /\ "WRITE" \in m_Desc.CPUAccessFlags
                       THEN "UPLOAD"
                     ELSE "DEFAULT"

\* C9 (amended): a committed backing allocation is in the readback pool when the
\* usage is staging and the CPU access flags are exactly read, in the upload pool
\* for every other staging buffer, and device-local for every other usage; there
\* is exactly one backing allocation and its width is the aligned Size.
C9_HeapPlacement ==
    CommittedBacking =>
        /\ Cardinality(Backing) = 1
        /\ Len(SelectSeq(log, LAMBDA e : e.op = "CreateCommittedResource"
                                          /\ e.heap # "UPLOAD")) <= 1
        /\ \A r \in Backing :
             /\ r.kind = "committed"
             /\ r.desc.Width = m_Desc.Size
             /\ r.heap \in {"READBACK", "UPLOAD", "DEFAULT"}
             /\ r.heap = "READBACK" <=>
                   (m_Desc.Usage = "STAGING" /\ m_Desc.CPUAccessFlags = {"READ"})
             /\ r.heap = "UPLOAD" <=>
                   (m_Desc.Usage = "STAGING" /\ m_Desc.CPUAccessFlags # {"READ"})
             /\ r.heap = "DEFAULT" <=> m_Desc.Usage # "STAGING"

C9_Witness ==
    /\ CommittedBacking /\ pc = "done" /\ m_Desc.Usage = "STAGING"
    /\ m_Desc.CPUAccessFlags = {"READ"}
    /\ \E r \in Backing : r.heap = "READBACK" /\ r.desc.Width = 256

C11_SparseReserved ==
    (IsCreate /\ args.BuffDesc.Usage = "SPARSE") =>
        /\ \A r \in d3d12Resources : r.id = "backing" /\ r.kind = "reserved"
        /\ LogOps({"CreateCommittedResource", "memcpy", "AllocateCommandContext",
                   "CopyResource", "CloseAndExecuteTransientCommandContext"}) = <<>>
        /\ loc.UploadBuffer = Null /\ loc.InitContext = NoContext /\ loc.Copied = 0
        /\ Submitted = {}
        /\ pc # "destroyed" =>
              (StaleResources = {} /\ ReleaseQueue = {}
               /\ LogOps({"SafeReleaseDeviceObject"}) = <<>>)
        /\ pc \notin {"create", "upload", "map", "alloc_ctx", "copy", "exec", "release", "cbv"}
        /\ pc = "finish" =>
              /\ m_State = "UNDEFINED"
              /\ m_pd3d12Resource = "backing"
              /\ Cardinality(d3d12Resources) = 1
              /\ LogOps({"CreateReservedResource"}) = <<[op |-> "CreateReservedResource"]>>

\* a sparse buffer was built with initial data supplied
C11_Witness ==
    /\ IsCreate /\ args.BuffDesc.Usage = "SPARSE" /\ HasInitialData
    /\ pc = "finish" /\ m_State = "UNDEFINED"
    /\ \E r \in d3d12Resources : r.kind = "reserved"

PipelineEvents ==
    SelectSeq(log, LAMBDA e :
        \/ e.op \in {"memcpy", "AllocateCommandContext", "CopyResource",
                     "CloseAndExecuteTransientCommandContext"}
        \/ (e.op = "SafeReleaseDeviceObject" /\ e.res = "upload"))

\* C13 as stated: at the end of a construction the upload pipeline has run
\* (staging resource created, copy recorded and submitted, staging released) if
\* and only if non-empty data was supplied and the backing resource is a
\* committed resource of the device-local pool (staging buffers taken with
\* exactly one CPU-access flag: the host-readback and host-upload buffers of the
\* statement).
C13_Original ==
    (/\ IsCreate /\ pc = "finish"
     /\ m_Desc.Usage = "STAGING" => m_Desc.CPUAccessFlags \in {{"READ"}, {"WRITE"}}) =>
        ((Staging # {} \/ PipelineEvents # <<>>)
            <=> (HasInitialData
                 /\ \E r \in Backing : r.kind = "committed" /\ r.heap = "DEFAULT"))

\* the queue the statement of C14 names: the supplied context's queue, else the
\* lowest queue of the buffer's mask
C14_Queue ==
    IF ~args.pBuffData.isNull /\ args.pBuffData.pContext # NoQueue
    THEN args.pBuffData.pContext
    ELSE CHOOSE q \in args.BuffDesc.ImmediateContextMask :
            \A p \in args.BuffDesc.ImmediateContextMask : q <= p

\* C14: the upload uses the supplied context's queue when a context comes with
\* the data and the lowest queue of the buffer's mask otherwise, and that one
\* queue is the one of the supported-state lookup, of the borrowed context, of
\* the submission and of the staging resource's release tag.
C14_SameQueue ==
    IsCreate =>
        /\ \A i \in 1 .. Len(log) :
              /\ log[i].op \in {"GetCommandQueueType", "AllocateCommandContext",
                                "CloseAndExecuteTransientCommandContext"}
                    => log[i].queue = C14_Queue
              /\ (log[i].op = "SafeReleaseDeviceObject" /\ log[i].res = "upload")
                    => log[i].mask = {C14_Queue}
        /\ loc.InitContext # NoContext => loc.InitContext.queue = C14_Queue
        /\ \A l \in Submitted : l.queue = C14_Queue
        /\ \A r \in StaleResources : r.res = "upload" => r.queue = C14_Queue
        /\ (loc.InitialDataSize > 0 /\ pc \in {"cbv", "finish", "done"}) =>
              /\ Len(LogOps({"GetCommandQueueType"})) = 1
              /\ Len(LogOps({"AllocateCommandContext"})) = 1
              /\ Len(LogOps({"CloseAndExecuteTransientCommandContext"})) = 1
              /\ \E r \in StaleResources : r.res = "upload"

\* an upload through a supplied context whose queue is not in the buffer's mask
C14_Witness ==
    /\ IsCreate /\ pc = "done" /\ HasInitialData
    /\ args.pBuffData.pContext = 1 /\ m_Desc.ImmediateContextMask = {0}
    /\ \E r \in StaleResources : r.res = "upload" /\ r.queue = 1

\* C15: the host copy into the staging resource moves min(supplied size, backing
\* width) bytes; the staging resource has the full backing width, so the copy
\* stays inside the staging resource and inside the supplied data; with a null
\* descriptor, a null data pointer or size 0 nothing is staged, copied or uploaded.
C15_CopySize ==
    IsCreate =>
        /\ \A st \in Staging : \A b \in Backing :
              st.desc.Width = b.desc.Width /\ st.desc.Width = m_Desc.Size
        /\ \A i \in 1 .. Len(log) : log[i].op = "memcpy" =>
              /\ Staging # {} /\ Backing # {}
              /\ \A b \in Backing :
                    log[i].size = (IF args.pBuffData.DataSize < b.desc.Width
                                   THEN args.pBuffData.DataSize ELSE b.desc.Width)
              /\ \A st \in Staging : log[i].size <= st.desc.Width
              /\ log[i].size <= args.pBuffData.DataSize
              /\ log[i].size > 0
              /\ loc.Copied = log[i].size
        /\ (loc.InitialDataSize > 0 /\ pc \in {"alloc_ctx", "copy", "exec", "release",
                                                 "cbv", "finish", "done"})
              => Len(LogOps({"memcpy"})) = 1
        /\ (args.pBuffData.isNull \/ ~args.pBuffData.pData \/ args.pBuffData.DataSize = 0) =>
              /\ Staging = {}
              /\ loc.Copied = 0
              /\ LogOps({"memcpy", "AllocateCommandContext", "CopyResource",
                         "CloseAndExecuteTransientCommandContext"}) = <<>>
              /\ Submitted = {}

\* more data was supplied than the backing resource holds: the copy was clamped
C15_Witness ==
    /\ IsCreate /\ pc = "done"
    /\ args.pBuffData.DataSize > m_Desc.Size
    /\ loc.Copied = m_Desc.Size
    /\ Staging # {}

\* C16 as stated: once constructed, by either constructor and for every usage, a
\* buffer with the uniform-buffer flag has its default constant-buffer view (a
\* descriptor allocated, the view created exactly once) and a buffer without the
\* flag has no constant-buffer descriptor (sparse buffers left aside, dynamic
\* buffers taken with CPU write access).
C16_Original ==
    (/\ Constructed /\ m_Desc.Usage # "SPARSE"
     /\ m_Desc.Usage = "DYNAMIC" => m_Desc.CPUAccessFlags = {"WRITE"}) =>
        IF "UNIFORM_BUFFER" \in m_Desc.BindFlags
        THEN m_CBVDescriptorAllocation.allocated /\ m_CBVDescriptorAllocation.created = 1
        ELSE m_CBVDescriptorAllocation = NoCBV

\* the constructions that create the default view of a uniform buffer: attaching
\* to a native resource, and allocating a committed backing resource
C16_HasBackingAtCtor ==
    \/ ~IsCreate
    \/ /\ m_Desc.Usage # "SPARSE"
       /\ ~(/\ m_Desc.Usage = "DYNAMIC"
            /\ "UNORDERED_ACCESS" \notin m_Desc.BindFlags
            /\ m_Desc.Mode \in {"UNDEFINED", "STRUCTURED"})

\* C16 (amended): once constructed, a buffer with the uniform-buffer flag that
\* was attached to a native resource or got a committed backing resource has its
\* default constant-buffer view: one descriptor allocated, the view created
\* exactly once; a suballocated dynamic buffer, a sparse buffer and a buffer
\* without the flag have no constant-buffer descriptor.
C16_DefaultCBV ==
    Constructed =>
        IF "UNIFORM_BUFFER" \in m_Desc.BindFlags /\ C16_HasBackingAtCtor
        THEN /\ m_CBVDescriptorAllocation.allocated
             /\ m_CBVDescriptorAllocation.created = 1
             /\ Len(LogOps({"CreateCBV"})) = 1
             /\ m_pd3d12Resource # Null \/ pc = "destroyed"
        ELSE /\ m_CBVDescriptorAllocation = NoCBV
             /\ LogOps({"CreateCBV"}) = <<>>

\* a committed uniform buffer built with initial data, and its default view
C16_Witness ==
    /\ IsCreate /\ pc = "done" /\ "UNIFORM_BUFFER" \in m_Desc.BindFlags
    /\ HasInitialData /\ Staging # {}
    /\ m_CBVDescriptorAllocation.allocated /\ m_CBVDescriptorAllocation.created = 1

\* the size CreateCBV is expected to hand to the native call, written out from
\* the statement: the effective size, then the next multiple of the alignment
C17_Expected(S, Offset, Size) ==
    LET hardwareMax == 65536
        eff == IF Size # 0 THEN Size
               ELSE IF S - Offset < hardwareMax THEN S - Offset ELSE hardwareMax
    IN  CHOOSE n \in {256 * k : k \in 0 .. 300} :
            n >= eff /\ \A m \in {256 * k : k \in 0 .. 300} : m >= eff => n <= m

\* C17: CreateCBV(offset, size) with size = 0 takes min(bufferSize - offset,
\* 4096 elements * 16 bytes) as the effective size, otherwise the given size;
\* the native call gets the effective size rounded up to the alignment, and the
\* view starts at the resource's address plus offset. The default view (offset
\* 0, size 0) of a buffer of size S gets min(S, 65536) rounded up.
C17_CreateCBV ==
    /\ views.cbv # NoCBVDesc =>
          /\ views.cbv.SizeInBytes = C17_Expected(m_Desc.Size, views.cbv.Offset, views.cbv.Size)
          /\ views.cbv.BufferLocation =
                (IF args.ctor = "attach" THEN 1048576 ELSE 2097152) + views.cbv.Offset
    /\ m_CBVDescriptorAllocation.created > 0 =>
          /\ m_CBVDescriptorAllocation.Offset = 0
          /\ m_CBVDescriptorAllocation.SizeInBytes = C17_Expected(m_Desc.Size, 0, 0)

\* a view of size 0 at offset 256 of a buffer larger than the largest view: the
\* effective size is the hardware maximum, not the rest of the buffer
C17_Witness ==
    /\ views.cbv # NoCBVDesc
    /\ views.cbv.Size = 0 /\ views.cbv.Offset = 256
    /\ m_Desc.Size - views.cbv.Offset > 65536
    /\ views.cbv.SizeInBytes = 65536

\* what the last call of CreateViewInternal left behind, by its arguments
C18_Outcome ==
    LET asked == ~views.last.ppViewNull /\
                 views.last.ViewType \in {"UNORDERED_ACCESS", "SHADER_RESOURCE"}
    IN  /\ ~views.thrown
        /\ (asked /\ ~views.last.valid) => (views.ppView = NoView /\ views.errors >= 1)
        /\ (asked /\ views.last.valid) =>
              (views.ppView # NoView /\ views.ppView.ViewType = views.last.ViewType)

\* a call of CreateViewInternal whose validation fails logs one error, takes no
\* descriptor and changes nothing of the buffer
C18_Step ==
    (views'.calls # views.calls /\ ~views'.last.valid) =>
        /\ views'.errors = views.errors + (IF views'.last.ppViewNull \/
                                              views'.last.ViewType = "UNDEFINED" THEN 0 ELSE 1)
        /\ views'.descriptors = views.descriptors
        /\ UNCHANGED <<m_State, m_Desc, m_pd3d12Resource, m_CBVDescriptorAllocation, pc>>

\* C18: when the validation of an unordered-access or shader-resource view
\* fails, CreateViewInternal logs an error, leaves the output pointer null, lets
\* no exception reach the caller and leaves the buffer's state, descriptor,
\* backing handle and constant-buffer view as they were; a later call with a
\* valid description creates its view, whatever failed before.
C18_ViewFailure == [](C18_Outcome) /\ [][C18_Step]_vars

\* a view created by a valid call after an earlier call failed and was logged
C18_Witness ==
    /\ views.errors >= 1 /\ views.calls >= 2
    /\ views.last.valid /\ views.ppView # NoView
    /\ m_CBVDescriptorAllocation.created = 1

\* a failed construction: nothing was submitted, nothing was handed to the
\* release queue, no context was borrowed, and the object holds no resource
C19_NothingSubmitted ==
    pc = "failed" =>
        /\ LogOps({"AllocateCommandContext", "CopyResource",
                   "CloseAndExecuteTransientCommandContext",
                   "SafeReleaseDeviceObject"}) = <<>>
        /\ Submitted = {} /\ StaleResources = {} /\ ReleaseQueue = {}
        /\ \A q \in Queues : NextFenceValue[q] = 1
        /\ m_pd3d12Resource = Null /\ loc.UploadBuffer = Null
        /\ m_MemoryProperties = Null
        /\ \A r \in d3d12Resources : r.id \in Freed

\* C19: when the backing allocation, the staging allocation or the staging
\* mapping fails, construction ends in the fatal error and stays there (no
\* buffer object comes out of it), and at that point no command context was
\* submitted and nothing was handed to the deferred-release queue.
C19_FatalBeforeSubmit ==
    /\ [](C19_NothingSubmitted)
    /\ [][pc = "failed" => pc' = "failed"]_vars
    /\ [][(pc \in {"create", "upload", "map"} /\ pc' = "failed") =>
             UNCHANGED <<Submitted, StaleResources, ReleaseQueue, NextFenceValue>>]_vars

\* the mapping of the staging buffer failed: both native resources had been
\* created and were destroyed at once
C19_Witness ==
    /\ pc = "failed"
    /\ {"backing", "upload"} \subseteq Freed
    /\ HasInitialData

\* what the borrowed context recorded: between its allocation and its submission
\* the log holds the copy from the staging buffer to the backing resource and
\* nothing else; no transition and no reference-count call was ever made
C20_OnlyCopy ==
    /\ LogOps({"TransitionResource", "AddRef", "Release"}) = <<>>
    /\ Len(LogOps({"CopyResource"})) <= 1
    /\ \A i \in 1 .. Len(log) :
          log[i].op = "AllocateCommandContext" =>
             /\ i + 1 <= Len(log) =>
                   /\ log[i + 1].op = "CopyResource"
                   /\ log[i + 1].dst = "backing" /\ log[i + 1].src = "upload"
                   /\ log[i + 1].tracked = "COPY_DEST"
             /\ i + 2 <= Len(log) =>
                   log[i + 2].op = "CloseAndExecuteTransientCommandContext"
    /\ \A i \in 1 .. Len(log) :
          log[i].op = "CopyResource" => (i > 1 /\ log[i - 1].op = "AllocateCommandContext")
    /\ pc = "exec" => loc.InitContext.refs = {"backing", "upload"}

\* C20: during construction with initial data the borrowed context records the
\* raw copy of the whole staging resource to the backing resource and nothing
\* else: no state transition is requested, no reference to the object is taken
\* or dropped, and the tracked state does not change from the recording of the
\* copy to the end of construction.
C20_RawCopyOnly ==
    /\ [](C20_OnlyCopy)
    /\ [][(pc \in {"copy", "exec", "release", "cbv", "finish"}) => (m_State' = m_State)]_vars

\* a buffer constructed with initial data: one copy was recorded and submitted
C20_Witness ==
    /\ pc = "done" /\ HasInitialData
    /\ Len(LogOps({"CopyResource"})) = 1
    /\ Len(LogOps({"CloseAndExecuteTransientCommandContext"})) = 1
    /\ ~hist.StateSet /\ m_State = "COPY_DEST"

C22_CBVInsideBuffer ==
    /\ m_CBVDescriptorAllocation.created > 0 =>
          m_CBVDescriptorAllocation.Offset + m_CBVDescriptorAllocation.SizeInBytes
              <= m_Desc.Size
    /\ views.cbv # NoCBVDesc =>
          views.cbv.Offset + views.cbv.SizeInBytes <= m_Desc.Size

\* C23: for a buffer attached to a native resource the descriptor agrees with
\* the resource after construction: Size equals the 64-bit native width (the
\* high and the low 32 bits both agree; the high 32 bits of Size are 0 after
\* the cast), the unordered-access flag is set whenever the resource allows
\* unordered access, the shader-resource flag is set exactly when the resource
\* does not deny shader resources, and the state is the supplied initial state.
C23_AttachAgrees ==
    (args.ctor = "attach" /\ pc = "done") =>
        /\ args.pd3d12Buffer.WidthHi = 0
        /\ m_Desc.Size = args.pd3d12Buffer.WidthLo
        /\ "ALLOW_UNORDERED_ACCESS" \in args.pd3d12Buffer.Flags =>
              "UNORDERED_ACCESS" \in m_Desc.BindFlags
        /\ "SHADER_RESOURCE" \in m_Desc.BindFlags <=>
              "DENY_SHADER_RESOURCE" \notin args.pd3d12Buffer.Flags
        /\ ~hist.StateSet => m_State = args.InitialState

\* the name the children are to be asked for: the substitute listed first for
\* the called name in the given substitute list, or the called name itself
C24_Target ==
    LET subs == IF factory.CI.pFileSubstitutesNull THEN <<>>
                ELSE factory.CI.pFileSubstitutes
        hits == {k \in 1 .. Len(subs) : subs[k].Name = factory.call.Name}
    IN  IF hits = {} THEN factory.call.Name
        ELSE subs[CHOOSE k \in hits : \A h \in hits : k <= h].Substitute

\* the child factories that are not null and can open the name
C24_Openers ==
    LET facs == IF factory.CI.ppFactoriesNull THEN <<>> ELSE factory.CI.ppFactories
    IN  {k \in 1 .. Len(facs) : ~facs[k].isNull /\ C24_Target \in facs[k].files}

\* C24: the compound factory replaces the name by its substitute when the name
\* is a key of the substitution map (once, not transitively), then asks the
\* child factories in the order given, skipping null entries, and stops at the
\* first that produces a stream: the stream returned is the one of the
\* lowest-indexed child that can open the substituted name, the children asked
\* are exactly the non-null ones up to that child, in order, and none after it.
C24_FirstFactoryWins ==
    factory.call.entry # "none" =>
        LET facs == IF factory.CI.ppFactoriesNull THEN <<>> ELSE factory.CI.ppFactories
            last == IF C24_Openers = {} THEN Len(facs)
                    ELSE CHOOSE k \in C24_Openers : \A o \in C24_Openers : k <= o
            due  == {k \in 1 .. last : ~facs[k].isNull}
        IN  /\ factory.ppStream =
                  (IF C24_Openers = {} THEN NoStream
                   ELSE [factory |-> last, Name |-> C24_Target])
            /\ {factory.asked[k].index : k \in 1 .. Len(factory.asked)} = due
            /\ Len(factory.asked) = Cardinality(due)
            /\ \A k \in 1 .. Len(factory.asked) :
                  /\ factory.asked[k].Name = C24_Target
                  /\ k > 1 => factory.asked[k - 1].index < factory.asked[k].index

\* the called name has a substitute that itself has a substitute, the first
\* child cannot open the substituted name and the second one returns it
C24_Witness ==
    /\ factory.call.entry # "none"
    /\ \E e \in factory.m_FileSubstituteMap :
          /\ e.Name = factory.call.Name
          /\ \E f \in factory.m_FileSubstituteMap : f.Name = e.Substitute
          /\ factory.ppStream = [factory |-> 2, Name |-> e.Substitute]
    /\ Len(factory.asked) = 2

\* C25: when no child factory produces a stream the output stays null and an
\* error is logged if and only if the caller did not pass the SILENT flag:
\* CreateInputStream, which passes no flags, logs the failure, CreateInputStream2
\* with SILENT logs nothing; when a stream is produced nothing is logged.
C25_LogUnlessSilent ==
    factory.call.entry # "none" =>
        /\ factory.call.entry = "CreateInputStream" => factory.call.Flags = {}
        /\ factory.ppStream = NoStream =>
              (factory.errors # <<>> <=> "SILENT" \notin factory.call.Flags)
        /\ factory.ppStream # NoStream => factory.errors = <<>>

=============================================================================
